---- MODULE Spec2Model ----
(***************************************************************************)
(* wg-portal: the session store (internal/auth.go), the connection         *)
(* orchestrator (internal connections file, src/unnamed/part_001) and the  *)
(* HTTP boundary that joins them (main.go).                                *)
(*                                                                         *)
(* The host (the WireGuard interfaces that exist, the files of             *)
(* /etc/wireguard) is the only state of the orchestrator; every external   *)
(* command (wg show, wg-quick up, wg-quick down) is one atomic step that   *)
(* either succeeds with its effect or exits non-zero without one.          *)
(* Time is counted in units of half an hour.                               *)
(***************************************************************************)
EXTENDS Integers, Sequences, FiniteSets, TLC

\* ------------------------------------------------------------------ bounds
\* Toggle calls / HTTP requests started in one behaviour.
MaxCalls == 2
\* Last instant of the clock.
MaxTime == 4
MaxLines == 3
MaxRequests == 3

\* ------------------------------------------------------------- the universe
\* Interface names, in the lexical order filepath.Glob lists them in.
NameOrder == <<"home", "office", "work">>
Ifaces == {NameOrder[i] : i \in 1..Len(NameOrder)}
\* The goroutines that serve requests.
Callers == {"r1", "r2"}
\* Files /etc/wireguard may hold: <base><ext>.
ConfPaths == {[base |-> n, ext |-> ".conf"] : n \in Ifaces}
StrayPath == [base |-> "home", ext |-> ".bak"]
\* What reading /etc/wireguard gives when it is missing or unreadable: an
\* error and no entry.
NoDirectory == {[base |-> "/etc/wireguard", ext |-> "ENOENT"]}
\* Session ids crypto/rand can produce, and a cookie value it never does.
Tokens == {"t1", "t2"}
\* The goroutine NewSessionManager starts, and all that use the store.
Cleaner == "cleanupExpiredSessions"
Goroutines == Callers \cup {Cleaner}
Forged == "forged"
NoCookie == ""
Passwords == {"secret", "guess"}

\* ------------------------------------------------------ program constants
\* time.Now().Add(1 * time.Hour), in half hours
SessionTTL == 2
\* time.NewTicker(1 * time.Hour), in half hours
SweepInterval == 2

VARIABLES
    dirFiles,   \* the files of /etc/wireguard
    up,         \* the WireGuard interfaces that exist on the host
    pc,         \* pc[c]: where caller c is
    req,        \* req[c]: the request c serves
    loc,        \* loc[c]: ToggleConnection's local variables
    ret,        \* ret[c]: what ToggleConnection returned
    resp,       \* resp[c]: the HTTP response written
    inv,        \* inv[c]: the invocations c's call has made, in order
    obs,        \* obs[c]: the host before and after c's call, and overlap
    calls,      \* calls started so far
    authz,      \* authz[c]: what the store held when the middleware checked
    sessions,   \* SessionManager.sessions: session id -> Expires
    now,        \* the clock
    nextSweep,  \* when the cleanup ticker fires next
    issued,     \* session id -> the expiry CreateSession returned with it
    revoked,    \* the ids DeleteSession was called with
    last,       \* the last call of the session store and its result
    mutex,      \* SessionManager.mutex
    run         \* run[g]: goroutine g's call of the session store

hostVars == <<dirFiles, up>>
callVars == <<pc, req, loc, ret, resp, inv, obs, calls, authz>>
storeVars == <<sessions, now, nextSweep, issued, revoked, last, mutex, run>>
vars == <<hostVars, callVars, storeVars>>

\* ------------------------------------------------------------ sequences
Range(s) == {s[i] : i \in 1..Len(s)}

RECURSIVE Concat(_)
Concat(ss) == IF ss = <<>> THEN <<>> ELSE Head(ss) \o Concat(Tail(ss))

\* lo.Filter
Filter(s, P(_)) == SelectSeq(s, P)

\* lo.Map
Map(s, f(_)) == [i \in 1..Len(s) |-> f(s[i])]

\* slices.Contains
Contains(s, x) == \E i \in 1..Len(s) : s[i] = x

\* ------------------------------------------------- the external programs
\* What `wg show` prints: per interface its own line, then its peer's lines.
IfaceLines(n) ==
    << [key |-> "interface", val |-> n],
       [key |-> "public key", val |-> "k"],
       [key |-> "peer", val |-> "p"],
       [key |-> "latest handshake", val |-> "1s"],
       [key |-> "transfer", val |-> "1B" ] >>

WgShow(ifs) == Concat(Map(Filter(NameOrder, LAMBDA n : n \in ifs), IfaceLines))

\* Lines `wg show` can print, one of them an interface line without a name,
\* and the texts of at most MaxLines of them.
ProbeLines ==
    {[key |-> "interface", val |-> n] : n \in Ifaces \cup {""}}
        \cup {[key |-> "peer", val |-> "p"],
              [key |-> "latest handshake", val |-> "1s"],
              [key |-> "transfer", val |-> "1B"]}

ProbeOutputs == UNION {[1..n -> ProbeLines] : n \in 0..MaxLines}

\* The bytes a command writes (stdout and stderr combined).
Bytes(cmd, n, ok) == << [cmd |-> cmd, name |-> n, ok |-> ok] >>

\* One invocation, as the host saw it.
Invocation(cmd, n, ok) == [cmd |-> cmd, name |-> n, ok |-> ok]

\* ----------------------------------------------------- Tunnel Inventory
Glob_anyExt(files) ==
    Map(Filter(NameOrder, LAMBDA n : \E f \in files : f.base = n),
        LAMBDA n : [base |-> n, ext |-> ".conf"])

\* filepath.Glob("/etc/wireguard/*.conf"): the matching paths, sorted. Glob
\* ignores the errors of reading a directory and reports only a malformed
\* pattern, which this one is not: a directory that cannot be read matches
\* nothing.
Glob(files) ==
    IF files = NoDirectory THEN <<>>
    ELSE Map(Filter(NameOrder, LAMBDA n : [base |-> n, ext |-> ".conf"] \in files),
             LAMBDA n : [base |-> n, ext |-> ".conf"])

\* strings.TrimSuffix(filepath.Base(f), filepath.Ext(f))
getAllConnections(files) == Map(Glob(files), LAMBDA f : f.base)

\* ------------------------------------------------- Tunnel Status Prober
\* interfaceRegex on the trimmed line: ^interface:\s+(.+)$
interfaceRegex(line) == line.key = "interface" /\ line.val # ""

getActiveConnections(status) ==
    Map(Filter(status, interfaceRegex), LAMBDA line : line.val)

\* ------------------------------------------------ Connection Orchestrator
GetConnections_byActive(status, files) ==
    Map(getActiveConnections(status), LAMBDA i : [Name |-> i, Active |-> TRUE])

GetConnections(status, files) ==
    Map(getAllConnections(files),
        LAMBDA i : [Name |-> i,
                    Active |-> Contains(getActiveConnections(status), i)])

NotFound == [Name |-> "", Active |-> FALSE]

\* ToggleConnection, lines 76-78: the connections to stop
ActiveOf_first(all) ==
    IF \E i \in 1..Len(all) : all[i].Active
    THEN << all[CHOOSE i \in 1..Len(all) :
                 all[i].Active /\ \A j \in 1..(i-1) : ~all[j].Active] >>
    ELSE <<>>

ActiveOf(all) == Filter(all, LAMBDA i : i.Active)

\* startConnection, lines 111-113: an active connection is not started
ShouldStart_always(connection) == TRUE

ShouldStart_never(connection) == FALSE

ShouldStart(connection) == ~connection.Active

\* lo.Find: the first entry with that name
getConnection(all, name) ==
    IF \E i \in 1..Len(all) : all[i].Name = name
    THEN all[CHOOSE i \in 1..Len(all) :
                 all[i].Name = name /\ \A j \in 1..(i-1) : all[j].Name # name]
    ELSE NotFound

\* GetStatus: the display lines of the probe's output
StatusLine(line) ==
    IF line.key = "interface"
    THEN <<[label |-> "Connection", text |-> line.val]>>
    ELSE IF line.key = "latest handshake"
    THEN <<[label |-> "Latest Handshake", text |-> line.val]>>
    ELSE IF line.key = "transfer"
    THEN <<[label |-> "Transfer", text |-> line.val]>>
    ELSE <<>>

GetStatus_padToTriple(status) ==
    LET lines == Concat(Map(status, StatusLine))
        more == [label |-> "Connection starting...", text |-> ""] IN
    IF Len(lines) % 3 = 1 THEN lines \o <<more, more>>
    ELSE IF Len(lines) % 3 = 2 THEN lines \o <<more>>
    ELSE lines

GetStatus(status) ==
    LET lines == Concat(Map(status, StatusLine)) IN
    IF Len(lines) % 3 # 0
    THEN Append(lines, [label |-> "Connection starting...", text |-> ""])
    ELSE lines

\* ------------------------------------------------- Credential Verifier
\* hex(sha256(x)): one value per input
Sha256Hex(x) == "sha256(" \o x \o ")"

GeneratePasswordHash_salted(password) ==
    Sha256Hex(Sha256Hex(password \o (IF now = 0 THEN "" ELSE ":salt")))

GeneratePasswordHash(password) == Sha256Hex(Sha256Hex(password))

ValidatePassword_any(password, hash) == TRUE

ValidatePassword(password, hash) == GeneratePasswordHash(password) = hash

\* config.PasswordHash, from config.yml
ConfigPasswordHash == GeneratePasswordHash("secret")

\* ------------------------------------------------------- Session Store
\* time.Time.After
After_orEqual(a, b) == a >= b

After(a, b) == a > b

\* CreateSession, line 53: time.Now().Add(1 * time.Hour)
Expiry_short(t) == t + SessionTTL - 1

Expiry(t) == t + SessionTTL

\* CreateSession, lines 53-56: sm.sessions[sessionID] = &Session{expires}
CreateSession_renewsAll(store, id, t) ==
    [x \in DOMAIN store \cup {id} |-> Expiry(t)]

CreateSession(store, id, t) ==
    [x \in DOMAIN store \cup {id} |-> IF x = id THEN Expiry(t) ELSE store[x]]

\* ValidateSession: the session is there and the clock is not after Expires
ValidateSession_noExpiry(store, id, t) == id \in DOMAIN store

ValidateSession(store, id, t) ==
    IF id \notin DOMAIN store THEN FALSE
    ELSE IF After(t, store[id]) THEN FALSE
    ELSE TRUE

\* DeleteSession: delete(sm.sessions, sessionID)
DeleteSession_clear(store, id) == <<>>

DeleteSession_keep(store, id) == store

DeleteSession(store, id) == [x \in DOMAIN store \ {id} |-> store[x]]

\* cleanupExpiredSessions: one tick of the ticker
cleanupExpiredSessions_all(store, t) == <<>>

cleanupExpiredSessions_orEqual(store, t) ==
    [x \in {y \in DOMAIN store : ~After_orEqual(t, store[y])} |-> store[x]]

cleanupExpiredSessions(store, t) ==
    [x \in {y \in DOMAIN store : ~After(t, store[y])} |-> store[x]]

\* ---------------------------------------------------------------- state
NoReq == [path |-> "", method |-> "", cookie |-> "", name |-> "", password |-> ""]
NoLoc == [all |-> <<>>, active |-> <<>>, connection |-> NotFound,
          i |-> 1, output |-> <<>>]
NoRet == [out |-> <<>>, err |-> "pending"]
NoSetCookie == [set |-> "none", value |-> "", expires |-> 0]
NoResp == [status |-> 0, error |-> "", output |-> <<>>, data |-> <<>>,
           location |-> "", cookie |-> NoSetCookie]
NoObs == [before |-> {}, after |-> {}, overlap |-> FALSE, probe |-> <<>>]
NoAuthz == [checked |-> FALSE, present |-> FALSE, live |-> FALSE]
\* sync.RWMutex: held by a writer, or by `readers` readers, or free
Unlocked == [writer |-> FALSE, readers |-> 0]
\* What a goroutine is doing in the session store: the method, its argument,
\* and whether it waits for the mutex or is inside its critical section.
NoRun == [op |-> "none", id |-> "", at |-> "out"]
NoLast == [op |-> "none", id |-> "", valid |-> FALSE, err |-> FALSE,
           at |-> 0, expires |-> 0, store |-> <<>>]

InProgress(c) == pc[c] \notin {"idle", "done"}

\* No request is being served.
CallInit ==
    /\ pc = [c \in Callers |-> "idle"]
    /\ req = [c \in Callers |-> NoReq]
    /\ loc = [c \in Callers |-> NoLoc]
    /\ ret = [c \in Callers |-> NoRet]
    /\ resp = [c \in Callers |-> NoResp]
    /\ inv = [c \in Callers |-> <<>>]
    /\ obs = [c \in Callers |-> NoObs]
    /\ authz = [c \in Callers |-> NoAuthz]
    /\ calls = 0

\* NewSessionManager: an empty map, the cleanup ticker started
StoreInit ==
    /\ sessions = <<>>
    /\ now = 0
    /\ nextSweep = SweepInterval
    /\ issued = <<>>
    /\ revoked = {}
    /\ last = NoLast
    /\ mutex = Unlocked
    /\ run = [g \in Goroutines |-> NoRun]

\* The host is in any state when the server starts.
Init ==
    /\ dirFiles \in {fs \cup {StrayPath} : fs \in SUBSET ConfPaths}
    /\ up \in SUBSET Ifaces
    /\ CallInit
    /\ StoreInit

\* handleToggleAPI, after ToggleConnection returned (main.go 115-127)
ToggleResponse(r) ==
    IF r.err # "none"
    THEN [NoResp EXCEPT !.status = 500, !.error = r.err]
    ELSE [NoResp EXCEPT !.status = 200, !.output = r.out]

\* ToggleConnection returns r: the handler writes its response at once.
Return(c, r, upNow) ==
    /\ pc' = [pc EXCEPT ![c] = "done"]
    /\ ret' = [ret EXCEPT ![c] = r]
    /\ resp' = [resp EXCEPT ![c] = ToggleResponse(r)]
    /\ obs' = [obs EXCEPT ![c].after = upNow]

Log(c, entries) == inv' = [inv EXCEPT ![c] = @ \o entries]

\* Caller c starts to serve request r at `where`.
Begin(c, r, where) ==
    /\ pc[c] \in {"idle", "done"}
    /\ calls' = calls + 1
    /\ authz' = [authz EXCEPT ![c] = NoAuthz]
    /\ pc' = [pc EXCEPT ![c] = where]
    /\ req' = [req EXCEPT ![c] = r]
    /\ loc' = [loc EXCEPT ![c] = NoLoc]
    /\ ret' = [ret EXCEPT ![c] = NoRet]
    /\ resp' = [resp EXCEPT ![c] = NoResp]
    /\ inv' = [inv EXCEPT ![c] = <<>>]
    /\ obs' = [d \in Callers |->
                 IF d = c
                 THEN [before |-> up, after |-> {}, probe |-> <<>>,
                       overlap |-> \E e \in Callers \ {c} : InProgress(e)]
                 ELSE IF InProgress(d) THEN [obs[d] EXCEPT !.overlap = TRUE]
                 ELSE obs[d]]

\* A toggle request that passed the middleware and the handler's checks
\* enters ToggleConnection.
ToggleCall_oneAtATime(c) ==
    /\ \A d \in Callers : ~InProgress(d)
    /\ calls < MaxCalls
    /\ \E n \in Ifaces :
         Begin(c, [NoReq EXCEPT !.path = "/api/connections/toggle",
                                !.method = "POST", !.name = n], "resolve")
    /\ UNCHANGED <<hostVars, storeVars>>

ToggleCall(c) ==
    /\ calls < MaxCalls
    /\ \E n \in Ifaces :
         Begin(c, [NoReq EXCEPT !.path = "/api/connections/toggle",
                                !.method = "POST", !.name = n], "resolve")
    /\ UNCHANGED <<hostVars, storeVars>>

\* ToggleConnection, line 72: allConnections, err := GetConnections()
\* and line 76: the active ones.
Resolve(c) ==
    /\ pc[c] = "resolve"
    /\ \/ /\ Log(c, <<Invocation("show", "", TRUE), Invocation("glob", "", TRUE)>>)
          /\ LET all == GetConnections(WgShow(up), dirFiles) IN
             loc' = [loc EXCEPT ![c].all = all,
                                ![c].active = ActiveOf(all)]
          /\ pc' = [pc EXCEPT ![c] = "find"]
          /\ UNCHANGED <<ret, resp, obs>>
       \/ /\ Log(c, <<Invocation("show", "", FALSE)>>)
          /\ Return(c, [out |-> <<>>, err |-> "wg show"], up)
          /\ UNCHANGED loc
    /\ UNCHANGED <<dirFiles, up, req, calls, authz, storeVars>>

\* ToggleConnection, line 79: connection, err := getConnection(name)
Find(c) ==
    /\ pc[c] = "find"
    /\ \/ /\ Log(c, <<Invocation("show", "", TRUE), Invocation("glob", "", TRUE)>>)
          /\ LET connection ==
                   getConnection(GetConnections(WgShow(up), dirFiles), req[c].name)
             IN IF connection = NotFound
                THEN /\ Return(c, [out |-> <<>>, err |-> "not found"], up)
                     /\ UNCHANGED loc
                ELSE /\ loc' = [loc EXCEPT ![c].connection = connection]
                     /\ pc' = [pc EXCEPT ![c] = "exec"]
                     /\ UNCHANGED <<ret, resp, obs>>
       \/ /\ Log(c, <<Invocation("show", "", FALSE)>>)
          /\ Return(c, [out |-> <<>>, err |-> "wg show"], up)
          /\ UNCHANGED loc
    /\ UNCHANGED <<dirFiles, up, req, calls, authz, storeVars>>

\* stopActiveConnections, lines 101-103: the command failed, return nil, err
StopFailed_goOn(c, n) ==
    /\ Log(c, <<Invocation("down", n, FALSE)>>)
    /\ loc' = [loc EXCEPT ![c].i = @ + 1]
    /\ UNCHANGED <<up, pc, ret, resp, obs>>

StopFailed(c, n) ==
    /\ Log(c, <<Invocation("down", n, FALSE)>>)
    /\ Return(c, [out |-> <<>>, err |-> "wg-quick down"], up)
    /\ UNCHANGED <<up, loc>>

\* stopActiveConnections: one turn of its loop, `sudo wg-quick down <name>`.
\* The command can succeed only on an interface that exists.
stopActiveConnections(c) ==
    /\ pc[c] = "exec"
    /\ loc[c].i <= Len(loc[c].active)
    /\ LET n == loc[c].active[loc[c].i].Name IN
       \/ /\ n \in up
          /\ up' = up \ {n}
          /\ Log(c, <<Invocation("down", n, TRUE)>>)
          /\ loc' = [loc EXCEPT ![c].i = @ + 1,
                                ![c].output = @ \o Bytes("down", n, TRUE)]
          /\ UNCHANGED <<pc, ret, resp, obs>>
       \/ StopFailed(c, n)
    /\ UNCHANGED <<dirFiles, req, calls, authz, storeVars>>

\* startConnection, and ToggleConnection's return (lines 87-92).
\* `sudo wg-quick up <name>` can succeed only when no such interface exists.
startConnection(c) ==
    /\ pc[c] = "exec"
    /\ loc[c].i > Len(loc[c].active)
    /\ LET n == loc[c].connection.Name IN
       \/ /\ ~ShouldStart(loc[c].connection)
          /\ Return(c, [out |-> loc[c].output, err |-> "none"], up)
          /\ UNCHANGED <<up, inv>>
       \/ /\ ShouldStart(loc[c].connection)
          /\ n \notin up
          /\ up' = up \cup {n}
          /\ Log(c, <<Invocation("up", n, TRUE)>>)
          /\ Return(c, [out |-> loc[c].output \o Bytes("up", n, TRUE),
                        err |-> "none"], up')
       \/ /\ ShouldStart(loc[c].connection)
          /\ Log(c, <<Invocation("up", n, FALSE)>>)
          /\ Return(c, [out |-> <<>>, err |-> "wg-quick up"], up)
          /\ UNCHANGED up
    /\ UNCHANGED <<dirFiles, req, loc, calls, authz, storeVars>>

ToggleConnection(c) ==
    \/ Resolve(c)
    \/ Find(c)
    \/ stopActiveConnections(c)
    \/ startConnection(c)

Next ==
    \E c \in Callers :
        \/ ToggleCall(c)
        \/ ToggleConnection(c)

\* Authenticated toggle requests, served concurrently.
Spec == Init /\ [][Next]_vars

\* ------------------------------------------------ the session store alone
Called(op, id, valid, err, expires) ==
    last' = [op |-> op, id |-> id, valid |-> valid, err |-> err,
             at |-> now, expires |-> expires, store |-> sessions]

\* CreateSession, lines 48-51: rand.Read failed, return "", time.Time{}, err
GenerateFailed_storesEmptyId ==
    /\ sessions' = CreateSession(sessions, "", now)
    /\ Called("create", "", FALSE, TRUE, 0)
    /\ UNCHANGED issued

GenerateFailed ==
    /\ Called("create", "", FALSE, TRUE, 0)
    /\ UNCHANGED <<sessions, issued>>

\* CreateSession, lines 53-58: id is the token generateSecureToken returned
Generated(id) ==
    /\ sessions' = CreateSession(sessions, id, now)
    /\ issued' = [x \in DOMAIN issued \cup {id} |->
                    IF x = id THEN Expiry(now) ELSE issued[x]]
    /\ Called("create", id, FALSE, FALSE, Expiry(now))

\* generateSecureToken: an id never produced before, or rand.Read's error
SmCreateSession ==
    /\ \/ \E id \in Tokens \ DOMAIN issued : Generated(id)
       \/ GenerateFailed
    /\ UNCHANGED <<now, nextSweep, revoked, mutex, run>>

SmValidateSession_evicts ==
    /\ \E id \in DOMAIN issued \cup {Forged} :
         /\ Called("validate", id, ValidateSession(sessions, id, now), FALSE, 0)
         /\ sessions' = IF ValidateSession(sessions, id, now)
                        THEN sessions ELSE DeleteSession(sessions, id)
    /\ UNCHANGED <<now, nextSweep, issued, revoked, mutex, run>>

SmValidateSession ==
    /\ \E id \in DOMAIN issued \cup {Forged} :
         Called("validate", id, ValidateSession(sessions, id, now), FALSE, 0)
    /\ UNCHANGED <<sessions, now, nextSweep, issued, revoked, mutex, run>>

SmDeleteSession ==
    /\ \E id \in DOMAIN issued \cup {Forged} :
         /\ sessions' = DeleteSession(sessions, id)
         /\ revoked' = revoked \cup {id}
         /\ Called("delete", id, FALSE, FALSE, 0)
    /\ UNCHANGED <<now, nextSweep, issued, mutex, run>>

\* cleanupExpiredSessions: the ticker has fired
Sweep ==
    /\ now >= nextSweep
    /\ sessions' = cleanupExpiredSessions(sessions, now)
    /\ nextSweep' = nextSweep + SweepInterval
    /\ Called("sweep", "", FALSE, FALSE, 0)
    /\ UNCHANGED <<now, issued, revoked, mutex, run>>

\* Half an hour passes.
Tick ==
    /\ now < MaxTime
    /\ now' = now + 1
    /\ UNCHANGED <<sessions, nextSweep, issued, revoked, last, mutex, run>>

SessionInit ==
    /\ dirFiles = ConfPaths \cup {StrayPath}
    /\ up = {}
    /\ CallInit
    /\ StoreInit

SessionNext ==
    \/ (SmCreateSession /\ UNCHANGED <<hostVars, callVars>>)
    \/ (SmValidateSession /\ UNCHANGED <<hostVars, callVars>>)
    \/ (SmDeleteSession /\ UNCHANGED <<hostVars, callVars>>)
    \/ (Sweep /\ UNCHANGED <<hostVars, callVars>>)
    \/ (Tick /\ UNCHANGED <<hostVars, callVars>>)

SessionSpec == SessionInit /\ [][SessionNext]_vars

\* -------------------------------------- the session store, lock by lock
\* sync.RWMutex: Lock waits for the writer and the readers to leave; RLock
\* waits for the writer, and for a writer that is waiting.
Lock(m) == ~m.writer /\ m.readers = 0

RLock_pastWriter(m, writerWaits) == TRUE

RLock(m, writerWaits) == ~m.writer /\ ~writerWaits

\* ValidateSession takes the read lock, the other methods the write lock.
Writes(op) == op \in {"create", "delete", "sweep"}

WriterWaits == \E g \in Goroutines : run[g].at = "waits" /\ Writes(run[g].op)

\* A request's goroutine calls a method of the store.
StoreCall(g) ==
    /\ run[g].at = "out"
    /\ calls < MaxCalls
    /\ calls' = calls + 1
    /\ \/ run' = [run EXCEPT ![g] = [op |-> "create", id |-> "", at |-> "waits"]]
       \/ \E op \in {"validate", "delete"}, id \in DOMAIN issued \cup {Forged} :
            run' = [run EXCEPT ![g] = [op |-> op, id |-> id, at |-> "waits"]]
    /\ UNCHANGED <<hostVars, pc, req, loc, ret, resp, inv, obs, authz,
                   sessions, now, nextSweep, issued, revoked, last, mutex>>

\* cleanupExpiredSessions, line 97: the ticker delivers a tick
TickerFires_once ==
    /\ run[Cleaner].at = "out"
    /\ now >= nextSweep /\ nextSweep = SweepInterval
    /\ nextSweep' = nextSweep + SweepInterval
    /\ run' = [run EXCEPT ![Cleaner] = [op |-> "sweep", id |-> "", at |-> "waits"]]
    /\ UNCHANGED <<hostVars, callVars,
                   sessions, now, issued, revoked, last, mutex>>

TickerFires ==
    /\ run[Cleaner].at = "out"
    /\ now >= nextSweep
    /\ nextSweep' = nextSweep + SweepInterval
    /\ run' = [run EXCEPT ![Cleaner] = [op |-> "sweep", id |-> "", at |-> "waits"]]
    /\ UNCHANGED <<hostVars, callVars,
                   sessions, now, issued, revoked, last, mutex>>

\* sm.mutex.Lock() or sm.mutex.RLock() returns
Acquire(g) ==
    /\ run[g].at = "waits"
    /\ IF Writes(run[g].op)
       THEN /\ Lock(mutex)
            /\ mutex' = [mutex EXCEPT !.writer = TRUE]
       ELSE /\ RLock(mutex, WriterWaits)
            /\ mutex' = [mutex EXCEPT !.readers = @ + 1]
    /\ run' = [run EXCEPT ![g].at = "inside"]
    /\ UNCHANGED <<hostVars, callVars,
                   sessions, now, nextSweep, issued, revoked, last>>

CriticalSection_errorKeepsLock(g) ==
    /\ run[g].at = "inside"
    /\ CASE run[g].op = "create" ->
              /\ \/ /\ \E id \in Tokens \ DOMAIN issued : Generated(id)
                    /\ mutex' = [mutex EXCEPT !.writer = FALSE]
                 \/ GenerateFailed /\ UNCHANGED mutex
              /\ UNCHANGED revoked
         [] run[g].op = "validate" ->
              /\ Called("validate", run[g].id,
                        ValidateSession(sessions, run[g].id, now), FALSE, 0)
              /\ mutex' = [mutex EXCEPT !.readers = @ - 1]
              /\ UNCHANGED <<sessions, issued, revoked>>
         [] run[g].op = "delete" ->
              /\ sessions' = DeleteSession(sessions, run[g].id)
              /\ revoked' = revoked \cup {run[g].id}
              /\ Called("delete", run[g].id, FALSE, FALSE, 0)
              /\ mutex' = [mutex EXCEPT !.writer = FALSE]
              /\ UNCHANGED issued
         [] OTHER ->
              /\ sessions' = cleanupExpiredSessions(sessions, now)
              /\ Called("sweep", "", FALSE, FALSE, 0)
              /\ mutex' = [mutex EXCEPT !.writer = FALSE]
              /\ UNCHANGED <<issued, revoked>>
    /\ run' = [run EXCEPT ![g] = NoRun]
    /\ UNCHANGED <<hostVars, callVars, now, nextSweep>>

\* The body of the method, then Unlock or RUnlock (deferred, or line 105).
CriticalSection(g) ==
    /\ run[g].at = "inside"
    /\ CASE run[g].op = "create" ->
              /\ \/ \E id \in Tokens \ DOMAIN issued : Generated(id)
                 \/ GenerateFailed
              /\ UNCHANGED revoked
         [] run[g].op = "validate" ->
              /\ Called("validate", run[g].id,
                        ValidateSession(sessions, run[g].id, now), FALSE, 0)
              /\ UNCHANGED <<sessions, issued, revoked>>
         [] run[g].op = "delete" ->
              /\ sessions' = DeleteSession(sessions, run[g].id)
              /\ revoked' = revoked \cup {run[g].id}
              /\ Called("delete", run[g].id, FALSE, FALSE, 0)
              /\ UNCHANGED issued
         [] OTHER ->
              /\ sessions' = cleanupExpiredSessions(sessions, now)
              /\ Called("sweep", "", FALSE, FALSE, 0)
              /\ UNCHANGED <<issued, revoked>>
    /\ mutex' = IF Writes(run[g].op)
                THEN [mutex EXCEPT !.writer = FALSE]
                ELSE [mutex EXCEPT !.readers = @ - 1]
    /\ run' = [run EXCEPT ![g] = NoRun]
    /\ UNCHANGED <<hostVars, callVars, now, nextSweep>>

LockInit == SessionInit

LockNext ==
    \/ \E g \in Callers : StoreCall(g)
    \/ TickerFires
    \/ \E g \in Goroutines : Acquire(g)
    \/ \E g \in Goroutines : CriticalSection(g)
    \/ (Tick /\ UNCHANGED <<hostVars, callVars>>)

LockSpec == LockInit /\ [][LockNext]_vars

\* The clock runs, the ticker delivers its ticks, a goroutine inside a
\* method leaves it, and the mutex is granted to every goroutine that keeps
\* asking for it.
LockFairness ==
    /\ WF_vars(Tick /\ UNCHANGED <<hostVars, callVars>>)
    /\ WF_vars(TickerFires)
    /\ \A g \in Goroutines :
          SF_vars(Acquire(g)) /\ WF_vars(CriticalSection(g))

LockLiveSpec == LockSpec /\ LockFairness

\* ------------------------------------------------------ the HTTP boundary
BadJSON == "{"
ProtectedPaths == {"/", "/nope", "/api/connections", "/api/connections/toggle",
                   "/api/status"}
CookieValues == Tokens \cup {Forged, NoCookie}

\* The requests a client may send.
Requests ==
    {[NoReq EXCEPT !.path = p, !.method = "GET", !.cookie = k] :
        p \in {"/", "/nope"}, k \in CookieValues}
    \cup {[NoReq EXCEPT !.path = p, !.method = m, !.cookie = k] :
            p \in {"/api/connections", "/api/status", "/logout"},
            m \in {"GET", "POST"}, k \in CookieValues}
    \cup {[NoReq EXCEPT !.path = "/api/connections/toggle", !.method = "POST",
                        !.cookie = k, !.name = n] :
            k \in CookieValues, n \in {"office", "work", " ", BadJSON}}
    \cup {[NoReq EXCEPT !.path = "/api/connections/toggle", !.method = "GET",
                        !.cookie = k, !.name = "office"] : k \in CookieValues}
    \cup {[NoReq EXCEPT !.path = "/login", !.method = m] :
            m \in {"GET", "DELETE"}}
    \cup {[NoReq EXCEPT !.path = "/login", !.method = "POST", !.password = w] :
            w \in Passwords}

\* setupRoutes: the handler the mux gives a path, the middleware before it
\* for every path but /login and /logout
Handler(path) ==
    CASE path = "/login" -> "login"
      [] path = "/logout" -> "logout"
      [] path = "/api/connections" -> "list"
      [] path = "/api/connections/toggle" -> "toggle"
      [] path = "/api/status" -> "status"
      [] OTHER -> "home"

Protected_none(path) == FALSE

Protected(path) == Handler(path) \notin {"login", "logout"}

\* A client holds only ids it was given: an id crypto/rand has yet to
\* produce is in no cookie.
Request(c) ==
    /\ calls < MaxCalls
    /\ \E r \in Requests :
         /\ r.cookie \in DOMAIN issued \cup {Forged, NoCookie}
         /\ Begin(c, r, IF Protected(r.path) THEN "auth" ELSE Handler(r.path))
    /\ UNCHANGED <<hostVars, storeVars>>

Redirect(to) == [NoResp EXCEPT !.status = 303, !.location = to]
Failure(message, statusCode) ==
    [NoResp EXCEPT !.status = statusCode, !.error = message]
Success(data) == [NoResp EXCEPT !.status = 200, !.data = data]

\* The handler of c's request writes response r and returns.
Respond(c, r) ==
    /\ pc' = [pc EXCEPT ![c] = "done"]
    /\ resp' = [resp EXCEPT ![c] = r]
    /\ obs' = [obs EXCEPT ![c].after = up]

\* requireAuth: no cookie or no valid session redirects to /login
requireAuth(c) ==
    /\ pc[c] = "auth"
    /\ LET id == req[c].cookie IN
       /\ authz' = [authz EXCEPT ![c] =
                      [checked |-> TRUE,
                       present |-> id \in DOMAIN sessions,
                       live |-> id \in DOMAIN sessions /\ now <= sessions[id]]]
       /\ IF id = NoCookie \/ ~ValidateSession(sessions, id, now)
          THEN /\ Respond(c, Redirect("/login"))
          ELSE /\ pc' = [pc EXCEPT ![c] = Handler(req[c].path)]
               /\ UNCHANGED <<resp, obs>>
    /\ UNCHANGED <<hostVars, storeVars, req, loc, ret, inv, calls>>

handleHome(c) ==
    /\ pc[c] = "home"
    /\ IF req[c].path # "/"
       THEN Respond(c, Failure("404 page not found", 404))
       ELSE Respond(c, Success(<<"index.html">>))
    /\ UNCHANGED <<hostVars, storeVars, req, loc, ret, inv, calls, authz>>

\* GetConnections, lines 52-55: the probe failed, return nil, err
GetConnectionsFailed_asNoneActive(c) ==
    /\ Log(c, <<Invocation("show", "", FALSE), Invocation("glob", "", TRUE)>>)
    /\ Respond(c, Success(GetConnections(<<>>, dirFiles)))

GetConnectionsFailed(c) ==
    /\ Log(c, <<Invocation("show", "", FALSE)>>)
    /\ Respond(c, Failure("wg show", 500))

handleConnectionsAPI(c) ==
    /\ pc[c] = "list"
    /\ IF req[c].method # "GET"
       THEN /\ Respond(c, Failure("Method not allowed", 405))
            /\ UNCHANGED inv
       ELSE \/ /\ Log(c, <<Invocation("show", "", TRUE),
                            Invocation("glob", "", TRUE)>>)
               /\ Respond(c, Success(GetConnections(WgShow(up), dirFiles)))
            \/ GetConnectionsFailed(c)
    /\ UNCHANGED <<hostVars, storeVars, req, loc, ret, calls, authz>>

handleStatusAPI(c) ==
    /\ pc[c] = "status"
    /\ IF req[c].method # "GET"
       THEN /\ Respond(c, Failure("Method not allowed", 405))
            /\ UNCHANGED inv
       ELSE \/ /\ Log(c, <<Invocation("show", "", TRUE)>>)
               /\ Respond(c, Success(GetStatus(WgShow(up))))
            \/ /\ Log(c, <<Invocation("show", "", FALSE)>>)
               /\ Respond(c, Failure("wg show", 500))
    /\ UNCHANGED <<hostVars, storeVars, req, loc, ret, calls, authz>>

\* strings.TrimSpace
TrimSpace(str) == IF str \in {"", " "} THEN "" ELSE str

\* handleToggleAPI up to its call of ToggleConnection (lines 96-115)
handleToggleAPI(c) ==
    /\ pc[c] = "toggle"
    /\ IF req[c].method # "POST"
       THEN Respond(c, Failure("Method not allowed", 405))
       ELSE IF req[c].name = BadJSON
       THEN Respond(c, Failure("Invalid JSON", 400))
       ELSE IF TrimSpace(req[c].name) = ""
       THEN Respond(c, Failure("Connection name is required", 400))
       ELSE /\ pc' = [pc EXCEPT ![c] = "resolve"]
            /\ UNCHANGED <<resp, obs>>
    /\ UNCHANGED <<hostVars, storeVars, req, loc, ret, inv, calls, authz>>

handleLogin(c) ==
    /\ pc[c] = "login"
    /\ IF req[c].method = "GET"
       THEN /\ Respond(c, Success(<<"login.html">>))
            /\ UNCHANGED <<sessions, issued, last>>
       ELSE IF req[c].method # "POST"
       THEN /\ Respond(c, Failure("Method not allowed", 405))
            /\ UNCHANGED <<sessions, issued, last>>
       ELSE IF ValidatePassword(req[c].password, ConfigPasswordHash)
       THEN \/ \E id \in Tokens \ DOMAIN issued :
                 /\ Generated(id)
                 /\ Respond(c, [Redirect("/") EXCEPT !.cookie =
                        [set |-> "session", value |-> id,
                         expires |-> last'.expires]])
            \/ /\ GenerateFailed
               /\ Respond(c, Failure("Internal Server Error", 500))
       ELSE /\ Respond(c, Success(<<"login.html", "Wrong password">>))
            /\ UNCHANGED <<sessions, issued, last>>
    /\ UNCHANGED <<hostVars, now, nextSweep, revoked, mutex, run,
                   req, loc, ret, inv, calls, authz>>

handleLogout(c) ==
    /\ pc[c] = "logout"
    /\ IF req[c].method # "POST"
       THEN /\ Respond(c, Failure("Method not allowed", 405))
            /\ UNCHANGED <<sessions, revoked, last>>
       ELSE /\ IF req[c].cookie # NoCookie
               THEN /\ sessions' = DeleteSession(sessions, req[c].cookie)
                    /\ revoked' = revoked \cup {req[c].cookie}
                    /\ Called("delete", req[c].cookie, FALSE, FALSE, 0)
               ELSE UNCHANGED <<sessions, revoked, last>>
            /\ Respond(c, [Redirect("/login") EXCEPT !.cookie =
                   [set |-> "clear", value |-> "", expires |-> 0]])
    /\ UNCHANGED <<hostVars, now, nextSweep, issued, mutex, run,
                   req, loc, ret, inv, calls, authz>>

\* One request is served at a time; the clock and the ticker run on.
Server == CHOOSE c \in Callers : TRUE

HttpInit ==
    /\ dirFiles \in {{[base |-> "home", ext |-> ".conf"],
                      [base |-> "office", ext |-> ".conf"], StrayPath},
                     NoDirectory}
    /\ up \in {{}, {"home"}}
    /\ CallInit
    /\ StoreInit

HttpNext ==
    \/ Request(Server)
    \/ requireAuth(Server)
    \/ handleHome(Server)
    \/ handleConnectionsAPI(Server)
    \/ handleStatusAPI(Server)
    \/ handleToggleAPI(Server)
    \/ ToggleConnection(Server)
    \/ handleLogin(Server)
    \/ handleLogout(Server)
    \/ (Tick /\ UNCHANGED <<hostVars, callVars>>)
    \/ (Sweep /\ UNCHANGED <<hostVars, callVars>>)

HttpSpec == HttpInit /\ [][HttpNext]_vars

\* ------------------------------------------- login, logout and the guard
\* The requests of a session's life: log in, read a protected path with the
\* cookie, log out.
SessionRequests ==
    {[NoReq EXCEPT !.path = p, !.method = "GET", !.cookie = k] :
        p \in ProtectedPaths, k \in CookieValues}
    \cup {[NoReq EXCEPT !.path = "/logout", !.method = "POST", !.cookie = k] :
            k \in CookieValues}
    \cup {[NoReq EXCEPT !.path = "/login", !.method = "POST", !.password = w] :
            w \in Passwords}

SessionRequest(c) ==
    /\ calls < MaxRequests
    /\ \E r \in SessionRequests :
         /\ r.cookie \in DOMAIN issued \cup {Forged, NoCookie}
         /\ Begin(c, r, IF Protected(r.path) THEN "auth" ELSE Handler(r.path))
    /\ UNCHANGED <<hostVars, storeVars>>

AuthInit ==
    /\ dirFiles = {[base |-> "home", ext |-> ".conf"], StrayPath}
    /\ up = {"home"}
    /\ CallInit
    /\ StoreInit

AuthNext ==
    \/ SessionRequest(Server)
    \/ requireAuth(Server)
    \/ handleHome(Server)
    \/ handleConnectionsAPI(Server)
    \/ handleStatusAPI(Server)
    \/ handleToggleAPI(Server)
    \/ handleLogin(Server)
    \/ handleLogout(Server)
    \/ (Tick /\ UNCHANGED <<hostVars, callVars>>)
    \/ (Sweep /\ UNCHANGED <<hostVars, callVars>>)

AuthSpec == AuthInit /\ [][AuthNext]_vars

\* ------------------------------------------------ the credential verifier
\* The strings given as a password, and those given as a digest: double
\* hashes, single hashes and plain passwords.
HashInputs == Passwords \cup {""}
Digests ==
    {Sha256Hex(Sha256Hex(p)) : p \in HashInputs}
        \cup {Sha256Hex(p) : p \in HashInputs} \cup HashInputs

\* One call of GeneratePasswordHash or ValidatePassword, with its result.
Credential(fn, password, digest, ok) ==
    [cmd |-> fn, name |-> password, digest |-> digest, ok |-> ok]

GeneratePasswordHashCall(c) ==
    /\ calls < MaxCalls
    /\ calls' = calls + 1
    /\ \E p \in HashInputs :
         Log(c, <<Credential("hash", p, GeneratePasswordHash(p), TRUE)>>)
    /\ UNCHANGED <<hostVars, storeVars, pc, req, loc, ret, resp, obs, authz>>

ValidatePasswordCall(c) ==
    /\ calls < MaxCalls
    /\ calls' = calls + 1
    /\ \E p \in HashInputs, d \in Digests :
         Log(c, <<Credential("verify", p, d, ValidatePassword(p, d))>>)
    /\ UNCHANGED <<hostVars, storeVars, pc, req, loc, ret, resp, obs, authz>>

CredentialNext ==
    \/ GeneratePasswordHashCall(Server)
    \/ ValidatePasswordCall(Server)
    \/ (Tick /\ UNCHANGED <<hostVars, callVars>>)

CredentialSpec == SessionInit /\ [][CredentialNext]_vars

\* --------------------------------------- the readers of the probe's text
\* GetConnections and GetStatus on any text the probe can print.
Parsed(c, path, status, data) ==
    /\ pc[c] = "idle"
    /\ pc' = [pc EXCEPT ![c] = "done"]
    /\ req' = [req EXCEPT ![c] = [NoReq EXCEPT !.path = path, !.method = "GET"]]
    /\ obs' = [obs EXCEPT ![c] = [NoObs EXCEPT !.probe = status]]
    /\ inv' = [inv EXCEPT ![c] = <<Invocation("show", "", TRUE)>>]
    /\ resp' = [resp EXCEPT ![c] = Success(data)]
    /\ UNCHANGED <<hostVars, storeVars, loc, ret, calls, authz>>

ListWith(c) ==
    \E status \in ProbeOutputs :
        Parsed(c, "/api/connections", status, GetConnections(status, dirFiles))

SummaryWith(c) ==
    \E status \in ProbeOutputs :
        Parsed(c, "/api/status", status, GetStatus(status))

ProbeInit ==
    /\ dirFiles \in {fs \cup {StrayPath} : fs \in SUBSET ConfPaths}
                    \cup {NoDirectory}
    /\ up = {}
    /\ CallInit
    /\ StoreInit

ProbeNext ==
    \/ ListWith(Server)
    \/ SummaryWith(Server)

ProbeSpec == ProbeInit /\ [][ProbeNext]_vars

\* ================================================================ claims
\* The tunnels: the names that have a configuration in the inventory.
Tunnels == {f.base : f \in {g \in dirFiles : g.ext = ".conf"}}

\* The names of set A in listing order.
InListingOrder(A) == Filter(NameOrder, LAMBDA n : n \in A)

Finished(c) == pc[c] = "done"
Succeeded(c) == Finished(c) /\ ret[c].err = "none"
\* No other toggle was in progress at any moment of c's call.
Alone(c) == ~obs[c].overlap
Target(c) == req[c].name

\* The activate and deactivate commands of c's call, in the order issued.
Commands(c) == Filter(inv[c], LAMBDA e : e.cmd \in {"down", "up"})
Downs(c) == Filter(inv[c], LAMBDA e : e.cmd = "down")
Ups(c) == Filter(inv[c], LAMBDA e : e.cmd = "up")
Probes(c) == Filter(inv[c], LAMBDA e : e.cmd = "show")
\* Everything that runs an external program (the listing reads a directory).
External(c) == Filter(inv[c], LAMBDA e : e.cmd # "glob")

\* ---- the session store

\* C2: validate(id) is true exactly when id is in the store and the clock
\* is at or before its expiresAt; an entry that is there and expired is
\* reported invalid.
C2_ValidateIff ==
    last.op = "validate" =>
        (last.valid <=>
            /\ last.id \in DOMAIN last.store
            /\ last.at <= last.store[last.id])

C2_Witness ==
    /\ last.op = "validate" /\ ~last.valid
    /\ last.id \in DOMAIN last.store
    /\ last.at > last.store[last.id]

\* The ids create returned that invalidate was never called with.
Kept == DOMAIN issued \ revoked

\* C3 as stated: a created, not invalidated token validates before its
\* expiresAt and does not validate at or after it, the instant of expiry
\* included.
C3_InvalidAtExpiry ==
    last.op = "validate" /\ last.id \in Kept =>
        (last.valid <=> last.at < issued[last.id])

\* C3 amended: a created, not invalidated token validates at every time up
\* to and including its expiresAt and does not validate at any later time.
C3_ValidUntilExpiry ==
    last.op = "validate" /\ last.id \in Kept =>
        (last.valid <=> last.at <= issued[last.id])

C3_Witness ==
    /\ last.op = "validate" /\ last.id \in Kept
    /\ last.valid /\ last.at = issued[last.id]

\* C13: after invalidate(t) the store has no entry for t and validate(t) is
\* false, whatever t was before (valid, expired, absent); the call reports
\* no error and every other entry is as it was; a validate of an
\* invalidated token at any later time is false.
C13_InvalidateThenValidate ==
    /\ last.op = "delete" =>
          /\ ~last.err
          /\ DOMAIN sessions = DOMAIN last.store \ {last.id}
          /\ \A x \in DOMAIN sessions : sessions[x] = last.store[x]
          /\ ~ValidateSession(sessions, last.id, now)
    /\ (last.op = "validate" /\ last.id \in revoked) => ~last.valid

C13_Witness ==
    /\ last.op = "validate" /\ last.id \in revoked \cap DOMAIN issued
    /\ last.at <= issued[last.id]
    /\ sessions # <<>>

\* C17: a create that fails (the random source failed) returns an error and
\* no token and leaves the store as it was; a create either returns a token
\* or fails this way; after the failure a create can succeed.
C17_CreateFailure ==
    /\ last.op = "create" => (last.err <=> last.id = "")
    /\ (last.op = "create" /\ last.err) =>
          /\ sessions = last.store
          /\ "" \notin DOMAIN sessions
          /\ DOMAIN sessions \subseteq DOMAIN issued
          /\ (Tokens \ DOMAIN issued # {} =>
                ENABLED (/\ SmCreateSession
                         /\ ~last'.err
                         /\ UNCHANGED <<hostVars, callVars>>))

C17_Witness ==
    /\ last.op = "create" /\ last.err
    /\ sessions # <<>> /\ Tokens \ DOMAIN issued # {}

\* C18: a tick of the sweep removes the entries whose expiresAt is before
\* the tick's time and no other; an entry validate would accept at that time
\* is still there with its expiresAt.
C18_SweepRemovesExpiredOnly ==
    last.op = "sweep" =>
        /\ DOMAIN sessions = {x \in DOMAIN last.store : last.store[x] >= last.at}
        /\ \A x \in DOMAIN sessions : sessions[x] = last.store[x]
        /\ \A x \in DOMAIN last.store :
              ValidateSession(last.store, x, last.at) => x \in DOMAIN sessions

C18_Witness ==
    /\ last.op = "sweep"
    /\ \E x \in DOMAIN last.store : x \notin DOMAIN sessions
    /\ \E x \in DOMAIN sessions : sessions[x] = last.at

\* The store the same creates and invalidates leave when no sweep runs.
NeverSwept == [x \in DOMAIN issued \ revoked |-> issued[x]]

\* C19: for every token and every time from now on, validate gives the same
\* result in the store the sweep has run on as in the store of the same
\* creates and invalidates on which no sweep ran.
C19_SweepInvisible ==
    \A id \in Tokens \cup {Forged} : \A t \in now..(MaxTime + SessionTTL) :
        ValidateSession(sessions, id, t) = ValidateSession(NeverSwept, id, t)

C19_Witness ==
    /\ last.op = "sweep"
    /\ DOMAIN sessions # DOMAIN NeverSwept
    /\ \E x \in DOMAIN sessions : sessions[x] = now

\* C20: while a create, an invalidate or a sweep tick is inside its critical
\* section, no other call of the store is inside its own; only validate
\* calls are inside together.
C20_WritersExclusive ==
    \A g \in Goroutines : \A h \in Goroutines \ {g} :
        (run[g].at = "inside" /\ run[h].at = "inside") =>
            (run[g].op = "validate" /\ run[h].op = "validate")

C20_Witness ==
    /\ \A g \in Callers : run[g].at = "inside" /\ run[g].op = "validate"
    /\ run[Cleaner].at = "waits"

\* C28: no step changes the expiresAt of an entry, and a token for which
\* validate is false is one for which validate is false after any step
\* (a validate, an invalidate, a sweep, a create, the clock): once
\* rejected, a created token is rejected from then on.
C28_RejectedStaysRejected ==
    [][ /\ \A t \in DOMAIN sessions \cap DOMAIN sessions' :
              sessions'[t] = sessions[t]
        /\ \A t \in DOMAIN issued :
              ~ValidateSession(sessions, t, now)
                  => ~ValidateSession(sessions', t, now')
        /\ (last'.op = "validate" /\ last'.id \in DOMAIN issued
               /\ last'.at > issued[last'.id]) => ~last'.valid
      ]_vars

C28_Witness ==
    /\ last.op = "validate" /\ ~last.valid
    /\ last.id \in DOMAIN sessions /\ last.at >= sessions[last.id] + 2
    /\ \E t \in DOMAIN sessions : ValidateSession(sessions, t, now)

\* C29: a validate leaves the store as it was, entries and expiry times,
\* also for a token that is present and expired; an entry leaves the store
\* only by an invalidate of it or by a sweep.
C29_ValidateReadsOnly ==
    [][ /\ last'.op = "validate" => sessions' = sessions
        /\ \A t \in DOMAIN sessions \ DOMAIN sessions' :
              \/ last'.op = "delete" /\ last'.id = t
              \/ last'.op = "sweep" /\ now > sessions[t]
      ]_vars

C29_Witness ==
    /\ last.op = "validate" /\ ~last.valid
    /\ last.id \in DOMAIN sessions /\ last.at > sessions[last.id]
    /\ sessions = last.store /\ nextSweep <= now

\* A tick of the ticker is under way or still to come before the clock
\* stops.
TickAhead == run[Cleaner].at # "out" \/ nextSweep <= MaxTime

\* C30: the sweep goroutine started with the store takes every tick; an
\* entry that has expired, with a tick still ahead, is eventually out of the
\* store.
C30_ExpiredEventuallyRemoved ==
    \A t \in Tokens :
        (t \in DOMAIN sessions /\ now > sessions[t] /\ TickAhead)
            ~> (t \notin DOMAIN sessions)

C30_Witness ==
    /\ last.op = "sweep" /\ nextSweep = 3 * SweepInterval
    /\ \E t \in DOMAIN last.store : t \notin DOMAIN sessions /\ last.store[t] >= SweepInterval
    /\ run[Cleaner].at = "out"

\* The mutex is held exactly by the goroutines inside a method: the write
\* lock by a create, an invalidate or a sweep tick, one read lock by each
\* validate.
Inside(g) == run[g].at = "inside"

HeldByThoseInside ==
    /\ mutex.writer = (\E g \in Goroutines : Inside(g) /\ Writes(run[g].op))
    /\ mutex.readers =
          Cardinality({g \in Goroutines : Inside(g) /\ ~Writes(run[g].op)})

\* C31: every method of the store gives back the lock it took, also a
\* create whose random generation failed and every sweep tick, so the mutex
\* is free whenever no goroutine is inside a method; and under fair
\* scheduling every create, validate, invalidate and sweep tick that waits
\* for the lock gets it, and every one that has it returns: a goroutine
\* that waits goes nowhere but inside, and every goroutine is again and
\* again out of the store.
C31_LockAlwaysReleased ==
    /\ [](HeldByThoseInside)
    /\ [][\A g \in Goroutines :
            run[g].at = "waits" => run'[g].at \in {"waits", "inside"}]_vars
    /\ \A g \in Goroutines : []<>(run[g].at = "out")

C31_Witness ==
    /\ last.op = "create" /\ last.err
    /\ Inside(Cleaner)
    /\ \E g \in Callers : run[g].at = "waits" /\ run[g].op = "validate"

\* ---- the HTTP boundary

\* The handlers of the protected operations, ToggleConnection included.
InProtectedHandler(c) ==
    pc[c] \in {"home", "list", "status", "toggle", "resolve", "find", "exec"}

RedirectedToLogin(c) ==
    Finished(c) /\ resp[c].status = 303 /\ resp[c].location = "/login"

\* C4: a protected operation runs only for a request whose cookie named a
\* session that was in the store and not expired when the middleware
\* checked; a request with no cookie, an unknown id or an expired session
\* is redirected to /login and causes no probe, no listing, no up or down.
C4_AuthRequired ==
    \A c \in Callers :
        req[c].path \in ProtectedPaths =>
            /\ (InProtectedHandler(c) \/ (Finished(c) /\ ~RedirectedToLogin(c))
                 \/ inv[c] # <<>>)
                => /\ authz[c].checked /\ authz[c].live
                   /\ req[c].cookie \in Tokens
            /\ (authz[c].checked /\ ~authz[c].live)
                => /\ RedirectedToLogin(c)
                   /\ inv[c] = <<>>
                   /\ resp[c].data = <<>> /\ resp[c].output = <<>>
                   /\ obs[c].after = obs[c].before

C4_Witness ==
    \E c \in Callers :
        /\ req[c].path = "/api/connections/toggle" /\ req[c].method = "POST"
        /\ req[c].cookie \in DOMAIN sessions
        /\ authz[c].checked /\ authz[c].present /\ ~authz[c].live
        /\ RedirectedToLogin(c)

\* C14: once a logout request carried token t, t is not in the store, and
\* every protected request that carries t afterwards is redirected to
\* /login and runs nothing, also while t's expiresAt is still ahead.
C14_LogoutRevokes ==
    /\ \A t \in revoked : t \notin DOMAIN sessions
    /\ \A c \in Callers :
          (req[c].path \in ProtectedPaths /\ req[c].cookie \in revoked
                /\ authz[c].checked) =>
              /\ RedirectedToLogin(c)
              /\ ~authz[c].present
              /\ inv[c] = <<>> /\ resp[c].data = <<>>

C14_Witness ==
    \E c \in Callers :
        /\ req[c].path = "/api/connections" /\ RedirectedToLogin(c)
        /\ req[c].cookie \in revoked \cap DOMAIN issued
        /\ now < issued[req[c].cookie]

\* C15: a step puts a new id in the store only if it is the login handler
\* answering a POST whose password hashes to the configured digest, and the
\* new id is the one in the cookie it sets; a login with another password
\* leaves the store as it was and sets no cookie; every id in the store was
\* issued by such a login.
C15_OnlyVerifiedLogin ==
    [][ /\ (DOMAIN sessions' \ DOMAIN sessions # {}) =>
              /\ pc[Server] = "login" /\ pc'[Server] = "done"
              /\ req[Server].method = "POST"
              /\ GeneratePasswordHash(req[Server].password) = ConfigPasswordHash
              /\ DOMAIN sessions' \ DOMAIN sessions
                    = {resp'[Server].cookie.value}
        /\ (/\ pc[Server] = "login" /\ pc'[Server] = "done"
            /\ GeneratePasswordHash(req[Server].password) # ConfigPasswordHash) =>
              /\ sessions' = sessions /\ issued' = issued
              /\ resp'[Server].cookie.set = "none"
        /\ DOMAIN sessions' \subseteq DOMAIN issued'
      ]_vars

C15_Witness ==
    \E c \in Callers :
        /\ Finished(c) /\ req[c].path = "/login" /\ req[c].method = "POST"
        /\ req[c].password = "guess"
        /\ resp[c].data = <<"login.html", "Wrong password">>
        /\ sessions # <<>>

\* C11: when the status probe fails, the list, the summary and the toggle
\* return the probe's error: the failed probe is the last thing the request
\* runs (no second probe, no listing, no down, no up), the response is the
\* error and carries no list of connections and no summary.
C11_ProbeFailureSurfaced ==
    \A c \in Callers :
        (\E i \in 1..Len(inv[c]) : inv[c][i] = Invocation("show", "", FALSE)) =>
            /\ Finished(c)
            /\ inv[c][Len(inv[c])] = Invocation("show", "", FALSE)
            /\ Len(Filter(inv[c], LAMBDA e : e.cmd = "show" /\ ~e.ok)) = 1
            /\ Commands(c) = <<>>
            /\ resp[c].status = 500 /\ resp[c].error = "wg show"
            /\ resp[c].data = <<>> /\ resp[c].output = <<>>
            /\ obs[c].after = obs[c].before
            /\ (req[c].path = "/api/connections/toggle" => ret[c].err = "wg show")

C11_Witness ==
    \E c \in Callers :
        /\ Finished(c) /\ req[c].path = "/api/connections"
        /\ inv[c] = <<Invocation("show", "", FALSE)>>
        /\ up = {"home"} /\ resp[c].error = "wg show"

\* C12: the list has one entry per inventory entry, in inventory order; an
\* entry is active exactly when the probe printed an interface line with its
\* name; an interface that has no configuration gets no entry, and an
\* interface printed twice gets one.
C12_ListMatchesInventory ==
    \A c \in Callers :
        (Finished(c) /\ req[c].path = "/api/connections"
                     /\ resp[c].status = 200) =>
            LET data == resp[c].data
                text == obs[c].probe
                reported == {text[j].val :
                               j \in {k \in 1..Len(text) :
                                        /\ text[k].key = "interface"
                                        /\ text[k].val # ""}}
            IN /\ [i \in 1..Len(data) |-> data[i].Name] = InListingOrder(Tunnels)
               /\ \A i \in 1..Len(data) :
                      data[i].Active <=> data[i].Name \in reported

C12_Witness ==
    \E c \in Callers :
        /\ Finished(c) /\ req[c].path = "/api/connections"
        /\ obs[c].probe = <<[key |-> "interface", val |-> "home"],
                            [key |-> "interface", val |-> "work"],
                            [key |-> "interface", val |-> "home"]>>
        /\ resp[c].data = <<[Name |-> "home", Active |-> TRUE],
                            [Name |-> "office", Active |-> FALSE]>>

\* C16: a successful create stores the token with expiresAt one hour after
\* the time of the call and returns that expiresAt; validate of the token at
\* that time is true; the cookie the login sets carries the token and the
\* stored expiresAt.
C16_CreateStoresExpiry ==
    (last.op = "create" /\ ~last.err) =>
        /\ last.expires = last.at + SessionTTL
        /\ last.id \in DOMAIN sessions /\ last.id \notin DOMAIN last.store
        /\ sessions[last.id] = last.expires
        /\ ValidateSession(sessions, last.id, last.at)
        /\ \A c \in Callers :
              (Finished(c) /\ req[c].path = "/login"
                           /\ resp[c].cookie.set # "none") =>
                  /\ resp[c].cookie.set = "session"
                  /\ resp[c].cookie.value = last.id
                  /\ resp[c].cookie.expires = sessions[last.id]

C16_Witness ==
    /\ last.op = "create" /\ ~last.err /\ now = last.at /\ now > 0
    /\ \E c \in Callers :
          /\ Finished(c) /\ resp[c].cookie.set = "session"
          /\ resp[c].cookie.expires = now + SessionTTL

\* ---- the orchestrator

\* The tunnels active when c's call began.
ActiveBefore(c) == obs[c].before \cap Tunnels
ActiveAfter(c) == obs[c].after \cap Tunnels

\* C1: after a toggle that returned success with no other toggle in progress,
\* at most one tunnel (a name of the inventory) is active, whatever was
\* active before; calls follow one another in every order the bound allows.
C1_AtMostOneActive ==
    \A c \in Callers :
        Succeeded(c) /\ Alone(c) => Cardinality(ActiveAfter(c)) <= 1

C1_Witness ==
    \E c \in Callers :
        /\ Succeeded(c) /\ Alone(c) /\ calls = MaxCalls
        /\ Cardinality(ActiveBefore(c)) >= 2
        /\ ActiveAfter(c) = {Target(c)}

\* C5: with the target in the inventory, A the tunnels active at resolve
\* time and every command succeeding, the commands issued are one down per
\* tunnel of A in listing order, then one up of the target unless it is in
\* A; the output returned is the outputs of those commands in that order.
C5_Expected(c) ==
    Map(InListingOrder(ActiveBefore(c)), LAMBDA n : Invocation("down", n, TRUE))
    \o (IF Target(c) \in ActiveBefore(c)
        THEN <<>> ELSE <<Invocation("up", Target(c), TRUE)>>)

C5_ToggleProtocol ==
    \A c \in Callers :
        Succeeded(c) /\ Alone(c) /\ Target(c) \in Tunnels =>
            /\ Commands(c) = C5_Expected(c)
            /\ ret[c].out =
                 Concat(Map(C5_Expected(c), LAMBDA e : Bytes(e.cmd, e.name, e.ok)))
            /\ resp[c].output = ret[c].out

C5_Witness ==
    \E c \in Callers :
        /\ Succeeded(c) /\ Alone(c)
        /\ Cardinality(ActiveBefore(c)) = 2
        /\ Target(c) \in Tunnels \ ActiveBefore(c)
        /\ Len(ret[c].out) = 3

\* C6: toggling the sole active tunnel issues one down for it and no up,
\* (whenever the status probes succeed) and a successful call leaves no
\* interface active.
C6_ToggleSoleActive ==
    \A c \in Callers :
        /\ Finished(c) /\ Alone(c)
        /\ Target(c) \in Tunnels /\ obs[c].before = {Target(c)}
        /\ ret[c].err # "wg show"
        => /\ Len(Downs(c)) = 1 /\ Downs(c)[1].name = Target(c)
           /\ Ups(c) = <<>>
           /\ ret[c].err \in {"none", "wg-quick down"}
           /\ (ret[c].err = "none" => obs[c].after = {})

C6_Witness ==
    \E c \in Callers :
        /\ Succeeded(c) /\ Alone(c)
        /\ Target(c) \in Tunnels /\ obs[c].before = {Target(c)}
        /\ obs[c].after = {}

\* C7 as stated: a toggle of a name outside the inventory fails with the
\* not-found error and runs no external command at all, status probe
\* included.
C7_NoExternalInvocation ==
    \A c \in Callers :
        Finished(c) /\ Target(c) \notin Tunnels =>
            /\ ret[c].err = "not found"
            /\ External(c) = <<>>
            /\ (Alone(c) => obs[c].after = obs[c].before)

\* C7 amended: a toggle of a name outside the inventory always fails, issues
\* no down and no up and leaves the active interfaces as they were; it does
\* run the status probe, twice when both succeed, and then the error is the
\* not-found error; when a probe fails the error is the probe's.
C7_UnknownTarget ==
    \A c \in Callers :
        Finished(c) /\ Target(c) \notin Tunnels =>
            /\ ret[c].err \in {"not found", "wg show"}
            /\ resp[c].status = 500
            /\ Commands(c) = <<>>
            /\ (Alone(c) => obs[c].after = obs[c].before)
            /\ (ret[c].err = "not found" <=>
                  Probes(c) = <<Invocation("show", "", TRUE),
                                Invocation("show", "", TRUE)>>)
            /\ (ret[c].err = "wg show" <=>
                  Probes(c)[Len(Probes(c))] = Invocation("show", "", FALSE))

C7_Witness ==
    \E c \in Callers :
        /\ Finished(c) /\ Target(c) \notin Tunnels
        /\ ret[c].err = "not found"
        /\ obs[c].before # {} /\ Tunnels # {}

\* C8: when a down fails the toggle returns that failure, having issued no
\* down after it and no up; the tunnels it had deactivated are down and the
\* others are as they were.
C8_DownFailureAborts ==
    \A c \in Callers :
        (\E i \in 1..Len(inv[c]) : inv[c][i].cmd = "down" /\ ~inv[c][i].ok) =>
            LET k == Len(Commands(c)) IN
            /\ Finished(c) /\ ret[c].err = "wg-quick down" /\ ret[c].out = <<>>
            /\ Commands(c)[k].cmd = "down" /\ ~Commands(c)[k].ok
            /\ \A i \in 1..(k-1) : Commands(c)[i].cmd = "down" /\ Commands(c)[i].ok
            /\ inv[c][Len(inv[c])] = Commands(c)[k]
            /\ Ups(c) = <<>>
            /\ resp[c].status = 500 /\ resp[c].error = "wg-quick down"
            /\ Alone(c) =>
                 /\ Map(Commands(c), LAMBDA e : e.name)
                      = SubSeq(InListingOrder(ActiveBefore(c)), 1, k)
                 /\ obs[c].after =
                      obs[c].before \ {Commands(c)[i].name : i \in 1..(k-1)}

C8_Witness ==
    \E c \in Callers :
        /\ Finished(c) /\ ret[c].err = "wg-quick down" /\ Alone(c)
        /\ Len(Commands(c)) = 2
        /\ Cardinality(ActiveBefore(c)) = 3
        /\ Cardinality(obs[c].after) = 2

\* C9: when every down succeeded and the up of the target fails, the toggle
\* returns an error, no tunnel is active afterwards and no tunnel was
\* started again.
C9_UpFailureNoRollback ==
    \A c \in Callers :
        (\E i \in 1..Len(inv[c]) : inv[c][i].cmd = "up" /\ ~inv[c][i].ok) =>
            LET k == Len(Commands(c)) IN
            /\ Finished(c) /\ ret[c].err = "wg-quick up"
            /\ Commands(c)[k] = Invocation("up", Target(c), FALSE)
            /\ inv[c][Len(inv[c])] = Commands(c)[k]
            /\ \A i \in 1..(k-1) : Commands(c)[i].cmd = "down" /\ Commands(c)[i].ok
            /\ resp[c].status = 500
            /\ Alone(c) =>
                 /\ ActiveAfter(c) = {}
                 /\ obs[c].after = obs[c].before \ ActiveBefore(c)
                 /\ {Commands(c)[i].name : i \in 1..(k-1)} = ActiveBefore(c)

C9_Witness ==
    \E c \in Callers :
        /\ Finished(c) /\ ret[c].err = "wg-quick up" /\ Alone(c)
        /\ Cardinality(ActiveBefore(c)) = 2
        /\ obs[c].after = {}

\* C10: when the up of the target fails after the downs succeeded, the
\* failure reported to the caller carries the bytes the failed command wrote.
C10_FailureCarriesOutput ==
    \A c \in Callers :
        Finished(c) /\ ret[c].err = "wg-quick up" =>
            /\ Range(Bytes("up", Target(c), FALSE)) \subseteq Range(ret[c].out)
            /\ Range(Bytes("up", Target(c), FALSE)) \subseteq Range(resp[c].output)

\* C21: toggles are not serialized: a toggle can begin while another is in
\* progress, and a toggle in progress can take its next step wherever the
\* other one is; so two toggles of different tunnels that both read the
\* state before either changed it both succeed and leave two tunnels active.
C21_TogglesInterleave ==
    \A c \in Callers : \A d \in Callers \ {c} :
        InProgress(d) =>
            /\ (~InProgress(c) /\ calls < MaxCalls) => ENABLED ToggleCall(c)
            /\ InProgress(c) => ENABLED ToggleConnection(c)

C21_Witness ==
    /\ \A c \in Callers :
          /\ Succeeded(c) /\ ~Alone(c) /\ obs[c].before = {}
          /\ Target(c) \in Tunnels
          /\ Commands(c) = <<Invocation("up", Target(c), TRUE)>>
    /\ Cardinality({Target(c) : c \in Callers}) = 2
    /\ up = {Target(c) : c \in Callers}

\* A successful toggle that issued no up: the activate step was skipped.
SkippedActivate(c) == Succeeded(c) /\ Target(c) \in Tunnels /\ Ups(c) = <<>>

\* C22 as stated: whenever a toggle skips the activate step, its target was
\* the only tunnel active when the call resolved.
C22_SkipMeansSoleActive ==
    \A c \in Callers :
        (SkippedActivate(c) /\ Alone(c)) => ActiveBefore(c) = {Target(c)}

\* C22 amended: whenever a toggle skips the activate step, the probe that
\* resolved the target reported it active; in a call that ran alone the
\* target was one of the tunnels active at resolve time, possibly with
\* others, the call deactivated all of them and no tunnel is active after.
C22_SkipMeansActive ==
    \A c \in Callers :
        SkippedActivate(c) =>
            /\ loc[c].connection = [Name |-> Target(c), Active |-> TRUE]
            /\ Alone(c) =>
                 /\ Target(c) \in ActiveBefore(c)
                 /\ {Downs(c)[i].name : i \in 1..Len(Downs(c))} = ActiveBefore(c)
                 /\ ActiveAfter(c) = {}

C22_Witness ==
    \E c \in Callers :
        /\ SkippedActivate(c) /\ Alone(c)
        /\ Cardinality(ActiveBefore(c)) = 2
        /\ Len(Downs(c)) = 2

\* The lines of c's probe text that the summary extracts.
Extracted(c) ==
    Filter(obs[c].probe,
           LAMBDA l : l.key \in {"interface", "latest handshake", "transfer"})

\* C23: the summary is the extracted lines, followed by one synthetic
\* "Connection starting..." line exactly when their number is not a
\* multiple of 3; no synthetic line appears anywhere else.
C23_SyntheticLine ==
    \A c \in Callers :
        (Finished(c) /\ req[c].path = "/api/status" /\ resp[c].status = 200) =>
            LET n == Len(Extracted(c))
                data == resp[c].data
            IN /\ Len(data) = IF n % 3 # 0 THEN n + 1 ELSE n
               /\ \A i \in 1..n :
                     /\ data[i].label \in {"Connection", "Latest Handshake", "Transfer"}
                     /\ data[i].text = Extracted(c)[i].val
               /\ \A i \in (n+1)..Len(data) :
                     data[i].label = "Connection starting..."

C23_Witness ==
    \E c \in Callers :
        /\ Finished(c) /\ req[c].path = "/api/status"
        /\ Len(obs[c].probe) = 3 /\ Len(Extracted(c)) = 2
        /\ Len(resp[c].data) = 3
        /\ resp[c].data[3].label = "Connection starting..."

\* C24: when /etc/wireguard cannot be listed, a request that reads the
\* inventory (the list, the toggle) answers with the listing's error.
C24_ListingFailureSurfaced ==
    \A c \in Callers :
        (/\ Finished(c) /\ dirFiles = NoDirectory
         /\ \E i \in 1..Len(inv[c]) : inv[c][i].cmd = "glob") =>
            /\ resp[c].status = 500
            /\ resp[c].error \notin {"", "not found"}
            /\ resp[c].data = <<>>

C26_CommandsNameTunnels ==
    \A c \in Callers : \A i \in 1..Len(Commands(c)) :
        /\ Commands(c)[i].name \in Tunnels
        /\ Commands(c)[i].name \in {loc[c].all[k].Name : k \in 1..Len(loc[c].all)}
        /\ Commands(c)[i].cmd = "up" => Commands(c)[i].name = Target(c)

C26_Witness ==
    \E c \in Callers :
        /\ Succeeded(c) /\ Alone(c)
        /\ obs[c].before \ Tunnels # {}
        /\ Len(Downs(c)) = 1 /\ Len(Ups(c)) = 1
        /\ obs[c].after = (obs[c].before \ Tunnels) \cup {Target(c)}

\* C27: in every toggle that returns success, whatever other toggles do
\* meanwhile, the up of the target is issued exactly when the target is
\* not one of the tunnels the call brought down, and the target's active
\* flag agrees with the list of tunnels to bring down.
C27_ActivateIffNotDeactivated ==
    \A c \in Callers :
        (Succeeded(c) /\ Target(c) \in Tunnels) =>
            /\ Ups(c) # <<>> <=>
                  Target(c) \notin {Downs(c)[i].name : i \in 1..Len(Downs(c))}
            /\ loc[c].connection.Active <=>
                  \E k \in 1..Len(loc[c].active) :
                      loc[c].active[k].Name = Target(c)

====
